---- MODULE Spec2Model ----
(***************************************************************************)
(* Expense tracker (src/app.py): a Flask API that keeps one worksheet per  *)
(* calendar month, with rows Date, Category, Amount, Note.                  *)
(*                                                                         *)
(* Strings are sequences of one-character strings, so that trimming, case  *)
(* folding, date parsing and number rendering are computed, not assumed.   *)
(* A JSON amount or an Amount cell is a tagged value: Num(n) or Str(s).    *)
(***************************************************************************)
EXTENDS Integers, Sequences, FiniteSets, TLC

VARIABLES
    sheets,     \* the spreadsheet: worksheet title -> grid (sequence of rows)
    last,       \* the last API call served sequentially and its response
    ncalls,     \* number of API calls started so far
    pc,         \* per worker: position inside add_or_update_expense
    wreq,       \* per worker: the request being served
    wread,      \* per worker: all_values as read at line 127
    wplan,      \* per worker: the decision taken from wread
    wres,       \* per worker: result of its last finished upsert
    overlap,    \* history: two upserts were in flight at the same time
    lost        \* history: a cell write overwrote a value its upsert never read

vars == <<sheets, last, ncalls, pc, wreq, wread, wplan, wres, overlap, lost>>

-----------------------------------------------------------------------------
(* Bounds of the model.                                                    *)

\* API calls per behaviour of the sequential specification
MaxCalls == 3
\* upserts started per behaviour of the interleaved specification
MaxRaceCalls == 3
\* stored rows drawn for the aggregation specification
MaxAggRows == 3
\* stored rows drawn, and upserts made, per behaviour of the ledger specification
MaxLedgerRows == 3
MaxLedgerCalls == 1
\* upserts per behaviour of the specification of spellings
MaxSpelledCalls == 2

-----------------------------------------------------------------------------
(* Characters and strings.                                                 *)

Digits == {"0", "1", "2", "3", "4", "5", "6", "7", "8", "9"}

DigitVal(c) ==
    CASE c = "0" -> 0 [] c = "1" -> 1 [] c = "2" -> 2 [] c = "3" -> 3
      [] c = "4" -> 4 [] c = "5" -> 5 [] c = "6" -> 6 [] c = "7" -> 7
      [] c = "8" -> 8 [] c = "9" -> 9

DigitChar(n) ==
    CASE n = 0 -> "0" [] n = 1 -> "1" [] n = 2 -> "2" [] n = 3 -> "3"
      [] n = 4 -> "4" [] n = 5 -> "5" [] n = 6 -> "6" [] n = 7 -> "7"
      [] n = 8 -> "8" [] n = 9 -> "9"

\* Python's None, as a value no character sequence equals
None == <<"None">>

IsSpace(c) == c = " "

AllDigits(f) == Len(f) > 0 /\ \A i \in 1..Len(f) : f[i] \in Digits

RECURSIVE ToNat(_)
ToNat(f) ==
    IF f = <<>> THEN 0
    ELSE 10 * ToNat(SubSeq(f, 1, Len(f) - 1)) + DigitVal(f[Len(f)])

RECURSIVE NatStr(_)
NatStr(n) ==
    IF n < 10 THEN <<DigitChar(n)>>
    ELSE NatStr(n \div 10) \o <<DigitChar(n % 10)>>

RECURSIVE LStrip(_)
LStrip(s) ==
    IF s # <<>> /\ IsSpace(s[1]) THEN LStrip(Tail(s)) ELSE s

RECURSIVE RStrip(_)
RStrip(s) ==
    IF s # <<>> /\ IsSpace(s[Len(s)]) THEN RStrip(SubSeq(s, 1, Len(s) - 1)) ELSE s

\* str.strip()
Strip(s) == RStrip(LStrip(s))

LowerChar(c) ==
    CASE c = "F" -> "f" [] c = "T" -> "t" [] c = "M" -> "m"
      [] c = "A" -> "a" [] c = "B" -> "b" [] OTHER -> c

\* str.lower()
Lower(s) == [i \in 1..Len(s) |-> LowerChar(s[i])]

RECURSIVE SplitOn(_, _)
SplitOn(s, sep) ==
    IF \A i \in 1..Len(s) : s[i] # sep THEN <<s>>
    ELSE LET k == CHOOSE i \in 1..Len(s) :
                      s[i] = sep /\ \A j \in 1..(i - 1) : s[j] # sep
         IN  <<SubSeq(s, 1, k - 1)>> \o SplitOn(SubSeq(s, k + 1, Len(s)), sep)

\* def clean_str(s): return (s or "").strip()
clean_str(s) == IF s = None THEN <<>> ELSE Strip(s)

-----------------------------------------------------------------------------
(* Amounts.                                                                *)

Num(n) == [t |-> "num", n |-> n, s |-> <<>>]
Str(s) == [t |-> "str", n |-> 0, s |-> s]

\* float(val) of a string: surrounding whitespace is ignored, the rest must
\* be a number (here: decimal digits); anything else raises ValueError.
FloatOfStr(s) ==
    LET b == Strip(s)
    IN  IF AllDigits(b) THEN [ok |-> TRUE, n |-> ToNat(b)]
        ELSE [ok |-> FALSE, n |-> 0]

\* def parse_amount(val): try float(val) except: 0.0
parse_amount(val) ==
    IF val.t = "num" THEN val.n
    ELSE IF FloatOfStr(val.s).ok THEN FloatOfStr(val.s).n ELSE 0

-----------------------------------------------------------------------------
(* Dates: datetime.strptime / strftime.                                    *)

NoDate == [ok |-> FALSE, y |-> 0, m |-> 0, d |-> 0]

IsLeap(y) == (y % 4 = 0 /\ y % 100 # 0) \/ y % 400 = 0

DaysInMonth(y, m) ==
    IF m \in {4, 6, 9, 11} THEN 30
    ELSE IF m = 2 THEN (IF IsLeap(y) THEN 29 ELSE 28)
    ELSE 31

\* %Y : \d\d\d\d
MatchYear(f) == Len(f) = 4 /\ AllDigits(f)
\* %m : 1[0-2]|0[1-9]|[1-9]
MatchMonth(f) == Len(f) \in {1, 2} /\ AllDigits(f) /\ ToNat(f) \in 1..12
\* %d : 3[0-1]|[1-2]\d|0[1-9]|[1-9]| [1-9]
MatchDay(f) ==
    \/ Len(f) \in {1, 2} /\ AllDigits(f) /\ ToNat(f) \in 1..31
    \/ Len(f) = 2 /\ f[1] = " " /\ f[2] \in Digits \ {"0"}

DayVal(f) == IF f[1] = " " THEN DigitVal(f[2]) ELSE ToNat(f)

\* datetime.strptime(s, "%Y-%m-%d"); ok = FALSE stands for ValueError
strptime_ymd(s) ==
    LET f == IF s = None THEN <<>> ELSE SplitOn(s, "-")
    IN  IF /\ Len(f) = 3
           /\ MatchYear(f[1]) /\ MatchMonth(f[2]) /\ MatchDay(f[3])
           /\ ToNat(f[1]) >= 1
           /\ DayVal(f[3]) <= DaysInMonth(ToNat(f[1]), ToNat(f[2]))
        THEN [ok |-> TRUE, y |-> ToNat(f[1]), m |-> ToNat(f[2]), d |-> DayVal(f[3])]
        ELSE NoDate

\* datetime.strptime(s, "%Y-%m"); the day defaults to 1
strptime_ym(s) ==
    LET f == SplitOn(s, "-")
    IN  IF /\ Len(f) = 2
           /\ MatchYear(f[1]) /\ MatchMonth(f[2])
           /\ ToNat(f[1]) >= 1
        THEN [ok |-> TRUE, y |-> ToNat(f[1]), m |-> ToNat(f[2]), d |-> 1]
        ELSE NoDate

Pad2(n) == <<DigitChar(n \div 10), DigitChar(n % 10)>>
Pad4(n) == Pad2(n \div 100) \o Pad2(n % 100)

\* dt.strftime("%Y-%m-%d")
strftime_ymd(dt) == Pad4(dt.y) \o <<"-">> \o Pad2(dt.m) \o <<"-">> \o Pad2(dt.d)

\* dt.strftime("%d")
strftime_d(dt) == Pad2(dt.d)

\* a < b on datetimes (time of day is always midnight here)
DateLess(a, b) ==
    \/ a.y < b.y
    \/ a.y = b.y /\ a.m < b.m
    \/ a.y = b.y /\ a.m = b.m /\ a.d < b.d

MonthName(m) ==
    CASE m = 1 -> "January" [] m = 2 -> "February" [] m = 3 -> "March"
      [] m = 4 -> "April" [] m = 5 -> "May" [] m = 6 -> "June"
      [] m = 7 -> "July" [] m = 8 -> "August" [] m = 9 -> "September"
      [] m = 10 -> "October" [] m = 11 -> "November" [] m = 12 -> "December"

\* line 41 formatting the clock's date (20 September 2025) instead of dt
month_title_from_date_now(dt) == <<MonthName(9), NatStr(2025)>>

\* def month_title_from_date(dt): return dt.strftime("%B %Y")
month_title_from_date(dt) == <<MonthName(dt.m), NatStr(dt.y)>>

\* the clock: datetime.today() / datetime.now()
Today == [ok |-> TRUE, y |-> 2025, m |-> 9, d |-> 20]

-----------------------------------------------------------------------------
(* The backend: a worksheet is a grid, a sequence of rows of four cells    *)
(* (Date, Category, Amount, Note). Date, Category and Note cells hold      *)
(* strings; an Amount cell holds Num(n) or Str(s).                          *)

S_Date == <<"D", "a", "t", "e">>
S_Category == <<"C", "a", "t", "e", "g", "o", "r", "y">>
S_Amount == <<"A", "m", "o", "u", "n", "t">>
S_Note == <<"N", "o", "t", "e">>

\* ["Date", "Category", "Amount", "Note"] as get_all_values returns it
HeaderValues == <<S_Date, S_Category, S_Amount, S_Note>>
\* the same row as stored
HeaderRow == <<S_Date, S_Category, Str(S_Amount), S_Note>>

\* the displayed text of an Amount cell
RenderAmount(a) == IF a.t = "num" THEN NatStr(a.n) ELSE a.s

\* ws.get_all_values(): every row as displayed strings
get_all_values(grid) ==
    [i \in 1..Len(grid) |->
        <<grid[i][1], grid[i][2], RenderAmount(grid[i][3]), grid[i][4]>>]

\* row += [""] * (4 - len(row))
PadRow(row) == row \o [i \in 1..(4 - Len(row)) |-> <<>>]

\* ws.update("A1:D1", [[...]]): overwrite the first row with the header
UpdateHeader(grid) ==
    IF grid = <<>> THEN <<HeaderRow>> ELSE [grid EXCEPT ![1] = HeaderRow]

\* ws.append_row(row): below the last row that holds data
append_row(grid, row) == Append(grid, row)

\* ws.insert_row(row, index): at the 1-based index, later rows shift down
insert_row(grid, row, index) ==
    IF index > Len(grid) THEN Append(grid, row)
    ELSE SubSeq(grid, 1, index - 1) \o <<row>> \o SubSeq(grid, index, Len(grid))

\* ws.update_cell(r, c, v)
update_cell(grid, r, c, v) ==
    IF r \in 1..Len(grid) THEN [grid EXCEPT ![r][c] = v] ELSE grid

\* A backend call may raise. failAt is the ordinal, within one request, of
\* the backend call that raises (0: none does); n counts the calls made.
Raised(sh, n) == [sh |-> sh, n |-> n, ok |-> FALSE]
Done(sh, n) == [sh |-> sh, n |-> n, ok |-> TRUE]

\* lines 57-64: header_ok
header_ok(values) ==
    /\ values # <<>>
    /\ SubSeq(PadRow(values[1]), 1, 4) = HeaderValues

\* lines 58-68 with header_ok starting out True: the header is never written
ensure_header_trusting(sh, title, failAt, n) ==
    IF failAt = n + 1 THEN Raised(sh, n + 1) ELSE Done(sh, n + 1)

\* def ensure_header(ws). The formatting call at lines 71-79 changes no cell
\* and its failures are swallowed.
ensure_header(sh, title, failAt, n) ==
    IF failAt = n + 1 THEN Raised(sh, n + 1)             \* ws.get_all_values()
    ELSE IF header_ok(get_all_values(sh[title])) THEN Done(sh, n + 1)
    ELSE IF failAt = n + 2 THEN Raised(sh, n + 2)        \* ws.update("A1:D1")
    ELSE Done([sh EXCEPT ![title] = UpdateHeader(@)], n + 2)

\* def get_or_create_worksheet(month_title)
get_or_create_worksheet(sh, title, failAt, n) ==
    IF failAt = n + 1 THEN Raised(sh, n + 1)             \* ss.worksheet(title)
    ELSE IF title \in DOMAIN sh THEN ensure_header(sh, title, failAt, n + 1)
    ELSE IF failAt = n + 2 THEN Raised(sh, n + 2)        \* ss.add_worksheet
    ELSE ensure_header(sh @@ (title :> <<>>), title, failAt, n + 2)

-----------------------------------------------------------------------------
(* add_or_update_expense: the scan of lines 135-170.                       *)

\* line 112 with >= for >: today counts as a future date
IsFuture_orToday(date_obj) == ~DateLess(date_obj, Today)

\* lines 112-113 left out: no date counts as a future date
IsFuture_never(date_obj) == FALSE

\* line 112: date_obj.date() > datetime.today().date()
IsFuture(date_obj) == DateLess(Today, date_obj)

\* lines 119-121 without line 119: the category is not trimmed
Candidate_rawCategory(date_str, date_obj, category, amount, note) ==
    [date_str |-> date_str, date_obj |-> date_obj,
     category |-> category,
     amount |-> parse_amount(amount),
     note |-> clean_str(note)]

\* lines 119-121 without line 120: the note is not trimmed
Candidate_rawNote(date_str, date_obj, category, amount, note) ==
    [date_str |-> date_str, date_obj |-> date_obj,
     category |-> clean_str(category),
     amount |-> parse_amount(amount),
     note |-> note]

\* lines 119-121: the candidate after normalisation
Candidate(date_str, date_obj, category, amount, note) ==
    [date_str |-> date_str, date_obj |-> date_obj,
     category |-> clean_str(category),
     amount |-> parse_amount(amount),
     note |-> clean_str(note)]

\* lines 145-148: the fields of a stored row as the scan reads them
RowFields(row) ==
    [row_date |-> clean_str(row[1]),
     row_category |-> clean_str(row[2]),
     row_amount |-> parse_amount(Str(row[3])),
     row_note |-> clean_str(row[4])]

\* line 153 with <= for <: a row of the candidate's own date counts as later
InsertsBefore_orEqual(cand, r) ==
    LET existing_dt == strptime_ymd(r.row_date)
    IN  existing_dt.ok /\ ~DateLess(existing_dt, cand.date_obj)

\* lines 151-158: this row is later than the candidate
InsertsBefore(cand, r) ==
    LET existing_dt == strptime_ymd(r.row_date)
    IN  existing_dt.ok /\ DateLess(cand.date_obj, existing_dt)

\* lines 161-164 without .lower(): the category is compared as spelled
IsExactDuplicate_caseSensitive(cand, r) ==
    /\ r.row_date = cand.date_str
    /\ r.row_category = cand.category
    /\ r.row_amount = cand.amount
    /\ r.row_note = cand.note

\* lines 161-164: exact duplicate
IsExactDuplicate(cand, r) ==
    /\ r.row_date = cand.date_str
    /\ Lower(r.row_category) = Lower(cand.category)
    /\ r.row_amount = cand.amount
    /\ r.row_note = cand.note

\* line 169 comparing the category as spelled
IsSameDateCategory_caseSensitive(cand, r) ==
    /\ r.row_date = cand.date_str
    /\ r.row_category = cand.category

\* line 169: same date and category
IsSameDateCategory(cand, r) ==
    /\ r.row_date = cand.date_str
    /\ Lower(r.row_category) = Lower(cand.category)

\* lines 153-155 without "insert_index is None": the last later row wins
NextInsertIndex_last(insert_index, idx, cand, r) ==
    IF InsertsBefore(cand, r) THEN idx ELSE insert_index

\* lines 153-155: the first later row is the insertion index
NextInsertIndex(insert_index, idx, cand, r) ==
    IF insert_index = 0 /\ InsertsBefore(cand, r) THEN idx ELSE insert_index

\* lines 169-170 with idx for idx + 1: the 0-based index handed to Sheets
NextUpdateIndex_zeroBased(update_row_index, idx, cand, r) ==
    IF update_row_index = 0 /\ IsSameDateCategory(cand, r) THEN idx - 1
    ELSE update_row_index

\* lines 169-170: the first row of the same date and category is the target
NextUpdateIndex(update_row_index, idx, cand, r) ==
    IF update_row_index = 0 /\ IsSameDateCategory(cand, r) THEN idx
    ELSE update_row_index

\* lines 140-170 with a break after line 170: the scan stops at the first
\* row of the candidate's date and category
RECURSIVE ScanRows_stopAtMatch(_, _, _, _, _)
ScanRows_stopAtMatch(all_values, cand, idx, update_row_index, insert_index) ==
    IF idx > Len(all_values)
    THEN [duplicate_found |-> FALSE,
          update_row_index |-> update_row_index,
          insert_index |-> insert_index]
    ELSE LET r == RowFields(PadRow(all_values[idx]))
             ins == NextInsertIndex(insert_index, idx, cand, r)
         IN  IF IsExactDuplicate(cand, r)
             THEN [duplicate_found |-> TRUE,
                   update_row_index |-> update_row_index,
                   insert_index |-> ins]
             ELSE IF IsSameDateCategory(cand, r)
             THEN [duplicate_found |-> FALSE,
                   update_row_index |-> idx,
                   insert_index |-> ins]
             ELSE ScanRows_stopAtMatch(all_values, cand, idx + 1,
                                       update_row_index, ins)

\* lines 140-170: idx is the 1-based sheet row (the code's idx + 1); 0 is None
RECURSIVE ScanRows(_, _, _, _, _)
ScanRows(all_values, cand, idx, update_row_index, insert_index) ==
    IF idx > Len(all_values)
    THEN [duplicate_found |-> FALSE,
          update_row_index |-> update_row_index,
          insert_index |-> insert_index]
    ELSE LET r == RowFields(PadRow(all_values[idx]))
             ins == NextInsertIndex(insert_index, idx, cand, r)
         IN  IF IsExactDuplicate(cand, r)
             THEN [duplicate_found |-> TRUE,
                   update_row_index |-> update_row_index,
                   insert_index |-> ins]
             ELSE ScanRows(all_values, cand, idx + 1,
                           NextUpdateIndex(update_row_index, idx, cand, r), ins)

\* the decision taken from all_values
Decide(all_values, cand) == ScanRows(all_values, cand, 2, 0, 0)

\* line 182: new_row
NewRow(cand) == <<cand.date_str, cand.category, Num(cand.amount), cand.note>>

Out(sh, result) == [sh |-> sh, result |-> result]

\* lines 172-188 with columns 2 and 3 for 3 and 4 at lines 177-178: the
\* amount lands in the Category cell and the note in the Amount cell
ApplyDecision_shiftedColumns(sh, title, cand, dec, failAt, n) ==
    IF dec.duplicate_found THEN Out(sh, "Duplicate")
    ELSE IF dec.update_row_index # 0 THEN
        IF failAt = n + 1 THEN Out(sh, "BackendError")
        ELSE LET sh1 == [sh EXCEPT ![title] =
                            update_cell(@, dec.update_row_index, 2,
                                        NatStr(cand.amount))]
             IN  IF failAt = n + 2 THEN Out(sh1, "BackendError")
                 ELSE Out([sh1 EXCEPT ![title] =
                            update_cell(@, dec.update_row_index, 3, Str(cand.note))],
                          "Updated")
    ELSE IF failAt = n + 1 THEN Out(sh, "BackendError")
    ELSE IF dec.insert_index # 0
         THEN Out([sh EXCEPT ![title] = insert_row(@, NewRow(cand), dec.insert_index)],
                  "Inserted")
         ELSE Out([sh EXCEPT ![title] = append_row(@, NewRow(cand))], "Appended")

\* lines 172-188: the writes that follow the scan
ApplyDecision(sh, title, cand, dec, failAt, n) ==
    IF dec.duplicate_found THEN Out(sh, "Duplicate")
    ELSE IF dec.update_row_index # 0 THEN
        IF failAt = n + 1 THEN Out(sh, "BackendError")
        ELSE LET sh1 == [sh EXCEPT ![title] =
                            update_cell(@, dec.update_row_index, 3, Num(cand.amount))]
             IN  IF failAt = n + 2 THEN Out(sh1, "BackendError")
                 ELSE Out([sh1 EXCEPT ![title] =
                            update_cell(@, dec.update_row_index, 4, cand.note)],
                          "Updated")
    ELSE IF failAt = n + 1 THEN Out(sh, "BackendError")
    ELSE IF dec.insert_index # 0
         THEN Out([sh EXCEPT ![title] = insert_row(@, NewRow(cand), dec.insert_index)],
                  "Inserted")
         ELSE Out([sh EXCEPT ![title] = append_row(@, NewRow(cand))], "Appended")

\* lines 128-132: the sheet came back with no rows at all
FreshSheet(sh, title, cand, failAt, n) ==
    LET h == ensure_header(sh, title, failAt, n)
    IN  IF ~h.ok THEN Out(h.sh, "BackendError")
        ELSE IF failAt = h.n + 1 THEN Out(h.sh, "BackendError")
        ELSE Out([h.sh EXCEPT ![title] = append_row(@, NewRow(cand))], "Appended")

\* def add_or_update_expense(date_str, category, amount, note)
add_or_update_expense(sh, date_str, category, amount, note, failAt) ==
    LET date_obj == strptime_ymd(date_str)
    IN  IF ~date_obj.ok THEN Out(sh, "ValueError")
        ELSE IF IsFuture(date_obj) THEN Out(sh, "FutureDate")
        ELSE
          LET title == month_title_from_date(date_obj)
              w == get_or_create_worksheet(sh, title, failAt, 0)
              cand == Candidate(date_str, date_obj, category, amount, note)
          IN  IF ~w.ok THEN Out(w.sh, "BackendError")
              ELSE IF failAt = w.n + 1 THEN Out(w.sh, "BackendError")
              ELSE
                LET all_values == get_all_values(w.sh[title])
                IN  IF all_values = <<>>
                    THEN FreshSheet(w.sh, title, cand, failAt, w.n + 1)
                    ELSE ApplyDecision(w.sh, title, cand,
                                       Decide(all_values, cand), failAt, w.n + 1)

-----------------------------------------------------------------------------
(* The API layer.                                                          *)

Added == {"Appended", "Inserted"}
Rejections == {"Duplicate", "FutureDate"}
Exceptions == {"ValueError", "BackendError"}

\* the "status" of the dict add_or_update_expense returns
StatusOf(result) == IF result \in Added \cup {"Updated"} THEN "ok" ELSE "error"

\* line 203 alone: an exception is answered like a rejection
HttpOf_noServerError(result) == IF StatusOf(result) = "ok" THEN 200 ELSE 400

\* lines 203 and 205-207: the HTTP status of the response
HttpOf(result) ==
    IF result \in Exceptions THEN 500
    ELSE IF StatusOf(result) = "ok" THEN 200 ELSE 400

\* line 197: clean_str(data.get("date")) or datetime.today().strftime("%Y-%m-%d")
DateOrToday(date) ==
    IF clean_str(date) = <<>> THEN strftime_ymd(Today) ELSE clean_str(date)

\* def add_expense(): the route, data being the JSON body
add_expense(sh, data, failAt) ==
    add_or_update_expense(sh, DateOrToday(data.date), data.category,
                          data.amount, data.note, failAt)

\* lines 197, 111 and 115: the request's date string, its datetime and the
\* title of its month's worksheet
ReqDate(data) == DateOrToday(data.date)
ReqDay(data) == strptime_ymd(ReqDate(data))
ReqTitle(data) == month_title_from_date(ReqDay(data))

\* def month_title_from_param(month_param); ok = FALSE stands for ValueError
month_title_from_param(month_param) ==
    LET dt == IF month_param # None /\ month_param # <<>>
              THEN strptime_ym(month_param) ELSE Today
    IN  [ok |-> dt.ok, title |-> IF dt.ok THEN month_title_from_date(dt) ELSE <<>>]

\* numericise: a cell whose text is a number is handed over as a number
Numericise(a) ==
    IF a.t = "str" /\ FloatOfStr(a.s).ok THEN Num(FloatOfStr(a.s).n) ELSE a

\* ws.get_all_records(): the rows below the header, keyed by the header
get_all_records(grid) ==
    [i \in 1..(Len(grid) - 1) |->
        [Date |-> grid[i + 1][1], Category |-> grid[i + 1][2],
         Amount |-> Numericise(grid[i + 1][3]), Note |-> grid[i + 1][4]]]

\* A Python dict: a sequence of <<key, value>> in insertion order.
DictKeys(dict) == {dict[i][1] : i \in 1..Len(dict)}
DictGet(dict, k, default) ==
    IF k \in DictKeys(dict)
    THEN (dict[CHOOSE i \in 1..Len(dict) : dict[i][1] = k])[2]
    ELSE default
DictSet(dict, k, v) ==
    IF k \in DictKeys(dict)
    THEN [i \in 1..Len(dict) |-> IF dict[i][1] = k THEN <<k, v>> ELSE dict[i]]
    ELSE Append(dict, <<k, v>>)

\* line 220 with the key folded to lower case
SummaryKey_lower(r) == Lower(clean_str(r.Category))

\* line 220: the key of the by-category summary
SummaryKey(r) == clean_str(r.Category)

\* lines 218-222: summary[cat] = summary.get(cat, 0.0) + amt
RECURSIVE SummaryFold(_, _, _)
SummaryFold(records, i, summary) ==
    IF i > Len(records) THEN summary
    ELSE LET cat == SummaryKey(records[i])
             amt == parse_amount(records[i].Amount)
         IN  SummaryFold(records, i + 1,
                         DictSet(summary, cat, DictGet(summary, cat, 0) + amt))

\* lines 239-248: daily[day_key] = daily.get(day_key, 0.0) + amt
RECURSIVE DailyFold(_, _, _)
DailyFold(records, i, daily) ==
    IF i > Len(records) THEN daily
    ELSE LET d == strptime_ymd(clean_str(records[i].Date))
             amt == parse_amount(records[i].Amount)
         IN  IF ~d.ok THEN DailyFold(records, i + 1, daily)
             ELSE DailyFold(records, i + 1,
                            DictSet(daily, strftime_d(d),
                                    DictGet(daily, strftime_d(d), 0) + amt))

\* line 251 without the sort: the keys in the order the rows gave them
SortByDay_insertionOrder(daily) == daily

\* line 251: sorted(daily.keys(), key=lambda x: int(x))
RECURSIVE SortByDay(_)
SortByDay(daily) ==
    IF daily = <<>> THEN <<>>
    ELSE LET k == CHOOSE i \in 1..Len(daily) :
                      \A j \in 1..Len(daily) :
                          \/ ToNat(daily[i][1]) < ToNat(daily[j][1])
                          \/ ToNat(daily[i][1]) = ToNat(daily[j][1]) /\ i <= j
         IN  <<daily[k]>> \o
             SortByDay(SubSeq(daily, 1, k - 1) \o SubSeq(daily, k + 1, Len(daily)))

Reply(sh, result, body) == [sh |-> sh, result |-> result, body |-> body]

\* the two summary routes share lines 211-216 / 232-237
Summarise(sh, month_param, failAt, daily) ==
    LET t == month_title_from_param(month_param)
    IN  IF ~t.ok THEN Reply(sh, "ValueError", <<>>)
        ELSE
          LET w == get_or_create_worksheet(sh, t.title, failAt, 0)
          IN  IF ~w.ok THEN Reply(w.sh, "BackendError", <<>>)
              ELSE IF failAt = w.n + 1 THEN Reply(w.sh, "BackendError", <<>>)
              ELSE
                LET records == get_all_records(w.sh[t.title])
                IN  Reply(w.sh, "Summary",
                          IF daily THEN SortByDay(DailyFold(records, 1, <<>>))
                          ELSE SummaryFold(records, 1, <<>>))

\* def get_summary()
get_summary(sh, month_param, failAt) == Summarise(sh, month_param, failAt, FALSE)

\* def get_daily_summary()
get_daily_summary(sh, month_param, failAt) == Summarise(sh, month_param, failAt, TRUE)

\* the HTTP status of a summary response
SummaryHttp(result) == IF result = "Summary" THEN 200 ELSE 500

-----------------------------------------------------------------------------
(* Requests.                                                               *)

D_0905 == <<"2", "0", "2", "5", "-", "0", "9", "-", "0", "5">>
D_95 == <<"2", "0", "2", "5", "-", "9", "-", "5">>
D_0910 == <<"2", "0", "2", "5", "-", "0", "9", "-", "1", "0">>
D_0920 == <<"2", "0", "2", "5", "-", "0", "9", "-", "2", "0">>
D_0921 == <<"2", "0", "2", "5", "-", "0", "9", "-", "2", "1">>
D_0831 == <<"2", "0", "2", "5", "-", "0", "8", "-", "3", "1">>
D_0230 == <<"2", "0", "2", "5", "-", "0", "2", "-", "3", "0">>

M_09 == <<"2", "0", "2", "5", "-", "0", "9">>
M_08 == <<"2", "0", "2", "5", "-", "0", "8">>
M_13 == <<"2", "0", "2", "5", "-", "1", "3">>

\* "date": absent (today, 2025-09-20), two spellings of 5 September, 10
\* September, 31 August, tomorrow, and a date that does not exist
DateInputs == {None, D_0905, D_95, D_0910, D_0831, D_0921, D_0230}

\* category, amount and note: an entry; the same entry spelled with
\* surrounding blanks and the amount as text; the same entry in another
\* letter case; the same category with another amount and note; another
\* category with an amount that is no number and an empty note
PayloadInputs ==
    { [category |-> <<"F">>, amount |-> Num(10), note |-> <<"a">>],
      [category |-> <<" ", "F", " ">>, amount |-> Str(<<"1", "0">>),
       note |-> <<"a", " ">>],
      [category |-> <<"f">>, amount |-> Num(10), note |-> <<"a">>],
      [category |-> <<"f">>, amount |-> Num(20), note |-> <<"b">>],
      [category |-> <<"T">>, amount |-> Str(<<"x">>), note |-> <<>>] }

Body(d, p) ==
    [date |-> d, category |-> p.category, amount |-> p.amount, note |-> p.note]

ExpenseInputs == {Body(d, p) : d \in DateInputs, p \in PayloadInputs}

\* "month": absent (the current month), August 2025, and no month at all
MonthInputs == {None, M_08, M_13}

\* the ordinal of the backend call that raises; 0: none raises. One upsert
\* makes at most seven calls.
FailPoints == 0..7

\* the requests served by the unreliable backend
FailInputs ==
    {Body(d, p) : d \in {None, D_0905},
                  p \in {q \in PayloadInputs :
                            q.category = <<"F">> \/ q.amount = Num(20)}}

Workers == {1, 2}

NoReq == [date |-> None, category |-> None, amount |-> Num(0), note |-> None]
NoPlan == [duplicate_found |-> FALSE, update_row_index |-> 0, insert_index |-> 0]

-----------------------------------------------------------------------------
(* Serving one request at a time.                                          *)

Served(op, data, month, r, code) ==
    [op |-> op, data |-> data, month |-> month, result |-> r.result,
     code |-> code, body |-> r.body]

NoCall ==
    [op |-> "none", data |-> NoReq, month |-> None, result |-> "none",
     code |-> 0, body |-> <<>>]

IdleWorkers ==
    /\ pc = [w \in Workers |-> "idle"]
    /\ wreq = [w \in Workers |-> NoReq]
    /\ wread = [w \in Workers |-> <<>>]
    /\ wplan = [w \in Workers |-> NoPlan]
    /\ wres = [w \in Workers |-> "none"]
    /\ overlap = FALSE
    /\ lost = FALSE

wvars == <<pc, wreq, wread, wplan, wres, overlap, lost>>

\* the current month's worksheet title
September == month_title_from_date(Today)

\* the spreadsheet before any request: no month worksheet exists
Init ==
    /\ sheets = <<>>
    /\ last = NoCall
    /\ ncalls = 0
    /\ IdleWorkers

\* POST /add_expense
AddExpense(inputs, fails) ==
    /\ ncalls < MaxCalls
    /\ \E data \in inputs, failAt \in fails :
          LET r == add_expense(sheets, data, failAt)
          IN  /\ sheets' = r.sh
              /\ last' = Served("add_expense", data, None,
                                Reply(r.sh, r.result, <<>>), HttpOf(r.result))
    /\ ncalls' = ncalls + 1
    /\ UNCHANGED wvars

\* GET /get_summary
GetSummary(months, fails) ==
    /\ ncalls < MaxCalls
    /\ \E month \in months, failAt \in fails :
          LET r == get_summary(sheets, month, failAt)
          IN  /\ sheets' = r.sh
              /\ last' = Served("get_summary", NoReq, month, r, SummaryHttp(r.result))
    /\ ncalls' = ncalls + 1
    /\ UNCHANGED wvars

\* GET /get_daily_summary
GetDailySummary(months, fails) ==
    /\ ncalls < MaxCalls
    /\ \E month \in months, failAt \in fails :
          LET r == get_daily_summary(sheets, month, failAt)
          IN  /\ sheets' = r.sh
              /\ last' = Served("get_daily_summary", NoReq, month, r,
                                SummaryHttp(r.result))
    /\ ncalls' = ncalls + 1
    /\ UNCHANGED wvars

\* The sequential specification: every backend call succeeds.
Next ==
    \/ AddExpense(ExpenseInputs, {0})
    \/ GetSummary(MonthInputs, {0})
    \/ GetDailySummary(MonthInputs, {0})

Spec == Init /\ [][Next]_vars

\* The sequential specification with a backend whose calls may raise.
NextFail ==
    \/ AddExpense(FailInputs, FailPoints)
    \/ GetSummary({None, M_13}, 0..5)
    \/ GetDailySummary({None, M_13}, 0..5)

SpecFail == Init /\ [][NextFail]_vars

-----------------------------------------------------------------------------
(* Upserts served by two workers: each backend call is one step.           *)

\* all of them valid, none in the future, all of September 2025
RaceInputs ==
    {Body(d, p) : d \in {D_0905, D_0910},
                  p \in {q \in PayloadInputs :
                            q.category = <<"F">> \/ q.amount = Num(20)}}

\* September 2025 as one sequential upsert leaves it
InitRace ==
    /\ sheets = (September :> <<HeaderRow, <<D_0910, <<"F">>, Num(10), <<"a">>>>>>)
    /\ last = NoCall
    /\ ncalls = 0
    /\ IdleWorkers

WCand(w) ==
    Candidate(ReqDate(wreq[w]), ReqDay(wreq[w]), wreq[w].category,
              wreq[w].amount, wreq[w].note)

BothInFlight(p) == \A w \in Workers : p[w] # "idle"

\* the cell about to be written is no longer the one this upsert read
Stale(w, col) ==
    LET cur == get_all_values(sheets[ReqTitle(wreq[w])])
        r == wplan[w].update_row_index
    IN  \/ r > Len(cur)
        \/ cur[r][1] # wread[w][r][1]
        \/ cur[r][2] # wread[w][r][2]
        \/ cur[r][col] # wread[w][r][col]

\* lines 110-121: a worker takes a request and resolves its worksheet
StartUpsert(w) ==
    /\ pc[w] = "idle"
    /\ ncalls < MaxRaceCalls
    /\ \E data \in RaceInputs :
          LET date_obj == strptime_ymd(ReqDate(data))
              ws == get_or_create_worksheet(sheets, month_title_from_date(date_obj), 0, 0)
          IN  /\ wreq' = [wreq EXCEPT ![w] = data]
              /\ IF ~date_obj.ok \/ IsFuture(date_obj)
                 THEN /\ pc' = pc
                      /\ wres' = [wres EXCEPT ![w] =
                                    IF date_obj.ok THEN "FutureDate" ELSE "ValueError"]
                      /\ sheets' = sheets
                 ELSE /\ pc' = [pc EXCEPT ![w] = "read"]
                      /\ wres' = [wres EXCEPT ![w] = "none"]
                      /\ sheets' = ws.sh
    /\ ncalls' = ncalls + 1
    /\ overlap' = (overlap \/ BothInFlight(pc'))
    /\ UNCHANGED <<last, wread, wplan, lost>>

\* lines 127-173: read all rows and decide
ReadRows(w) ==
    /\ pc[w] = "read"
    /\ LET all_values == get_all_values(sheets[ReqTitle(wreq[w])])
           dec == IF all_values = <<>> THEN NoPlan ELSE Decide(all_values, WCand(w))
       IN  /\ wread' = [wread EXCEPT ![w] = all_values]
           /\ wplan' = [wplan EXCEPT ![w] = dec]
           /\ pc' = [pc EXCEPT ![w] =
                        IF dec.duplicate_found THEN "idle"
                        ELSE IF dec.update_row_index # 0 THEN "update_amount"
                        ELSE "insert"]
           /\ wres' = [wres EXCEPT ![w] =
                        IF dec.duplicate_found THEN "Duplicate" ELSE @]
    /\ UNCHANGED <<sheets, last, ncalls, wreq, overlap, lost>>

\* line 177: ws.update_cell(update_row_index, 3, amount)
UpdateAmount(w) ==
    /\ pc[w] = "update_amount"
    /\ sheets' = [sheets EXCEPT ![ReqTitle(wreq[w])] =
                    update_cell(@, wplan[w].update_row_index, 3, Num(WCand(w).amount))]
    /\ lost' = (lost \/ Stale(w, 3))
    /\ pc' = [pc EXCEPT ![w] = "update_note"]
    /\ UNCHANGED <<last, ncalls, wreq, wread, wplan, wres, overlap>>

\* lines 178-179: ws.update_cell(update_row_index, 4, note)
UpdateNote(w) ==
    /\ pc[w] = "update_note"
    /\ sheets' = [sheets EXCEPT ![ReqTitle(wreq[w])] =
                    update_cell(@, wplan[w].update_row_index, 4, WCand(w).note)]
    /\ lost' = (lost \/ Stale(w, 4))
    /\ pc' = [pc EXCEPT ![w] = "idle"]
    /\ wres' = [wres EXCEPT ![w] = "Updated"]
    /\ UNCHANGED <<last, ncalls, wreq, wread, wplan, overlap>>

\* lines 128-132 and 181-188: ws.insert_row / ws.append_row
InsertOrAppend(w) ==
    /\ pc[w] = "insert"
    /\ LET t == ReqTitle(wreq[w])
           r == IF wread[w] = <<>>
                THEN FreshSheet(sheets, t, WCand(w), 0, 0)
                ELSE ApplyDecision(sheets, t, WCand(w), wplan[w], 0, 0)
       IN  /\ sheets' = r.sh
           /\ wres' = [wres EXCEPT ![w] = r.result]
    /\ pc' = [pc EXCEPT ![w] = "idle"]
    /\ UNCHANGED <<last, ncalls, wreq, wread, wplan, overlap, lost>>

NextRace ==
    \E w \in Workers :
        \/ StartUpsert(w)
        \/ ReadRows(w)
        \/ UpdateAmount(w)
        \/ UpdateNote(w)
        \/ InsertOrAppend(w)

SpecRace == InitRace /\ [][NextRace]_vars

-----------------------------------------------------------------------------
(* The summaries of stored rows, whoever stored them.                      *)

\* Date and Category cells as a worksheet may hold them
AggDateCategory ==
    { <<D_0905, <<"F">>>>, <<D_0910, <<"f">>>>, <<D_95, <<" ", "F", " ">>>>,
      <<<<"x">>, <<"T">>>>, <<D_0905, <<"T">>>> }

\* Amount cells: two numbers and a text that is no number
AggAmounts == {Num(100), Num(25), Str(<<"x">>)}

AggRows == {<<dc[1], dc[2], a, <<>>>> : dc \in AggDateCategory, a \in AggAmounts}

InitAgg ==
    /\ \E n \in 0..MaxAggRows :
          \E rows \in [1..n -> AggRows] :
              sheets = (September :> (<<HeaderRow>> \o rows))
    /\ last = NoCall
    /\ ncalls = 0
    /\ IdleWorkers

NextAgg ==
    \/ GetSummary({None}, {0})
    \/ GetDailySummary({None}, {0})

SpecAgg == InitAgg /\ [][NextAgg]_vars

-----------------------------------------------------------------------------
(* Upserts into a worksheet whose rows interleaved upserts have left in    *)
(* any order, several of them of one date and category.                    *)

LedgerDates == {D_0905, D_0910}

LedgerPayloads ==
    { <<<<"F">>, Num(10), <<"a">>>>, <<<<"F">>, Num(20), <<"b">>>>,
      <<<<"f">>, Num(20), <<"a">>>> }

LedgerRows == {<<d, p[1], p[2], p[3]>> : d \in LedgerDates, p \in LedgerPayloads}

LedgerInputs ==
    {Body(d, p) : d \in LedgerDates,
                  p \in {q \in PayloadInputs : q.category # <<"T">>}}

InitLedger ==
    /\ \E n \in 0..MaxLedgerRows :
          \E rows \in [1..n -> LedgerRows] :
              sheets = (September :> (<<HeaderRow>> \o rows))
    /\ last = NoCall
    /\ ncalls = 0
    /\ IdleWorkers

\* POST /add_expense, at most max times
Upsert(inputs, max) ==
    /\ ncalls < max
    /\ \E data \in inputs :
          LET r == add_expense(sheets, data, 0)
          IN  /\ sheets' = r.sh
              /\ last' = Served("add_expense", data, None,
                                Reply(r.sh, r.result, <<>>), HttpOf(r.result))
    /\ ncalls' = ncalls + 1
    /\ UNCHANGED wvars

NextLedger == Upsert(LedgerInputs, MaxLedgerCalls)

SpecLedger == InitLedger /\ [][NextLedger]_vars

-----------------------------------------------------------------------------
(* Upserts of one day's entry in all its spellings.                        *)

\* the category as is, with surrounding blanks, and in the other letter case
SpelledCategories == {<<"F">>, <<" ", "F", " ">>, <<"f">>}

\* 10 as a number and as text, 0, and two texts that are no number
SpelledAmounts ==
    {Num(10), Str(<<"1", "0">>), Num(0), Str(<<"x">>), Str(<<"y">>)}

\* the note as is and with a trailing blank
SpelledNotes == {<<"a">>, <<"a", " ">>}

SpelledInputs ==
    {Body(D_0905, [category |-> c, amount |-> a, note |-> n]) :
        c \in SpelledCategories, a \in SpelledAmounts, n \in SpelledNotes}

NextSpelled == Upsert(SpelledInputs, MaxSpelledCalls)

SpecSpelled == Init /\ [][NextSpelled]_vars

-----------------------------------------------------------------------------
(* What the claims speak of.                                               *)

\* the rows below the header
DataRows(grid) == SubSeq(grid, 2, Len(grid))

\* the calendar date a stored row carries
RowDate(row) == strptime_ymd(clean_str(row[1]))

\* the Date column below the header
DateColumn(grid) == [i \in 1..(Len(grid) - 1) |-> grid[i + 1][1]]

\* the request parses and is not dated after today
ValidNow(data) == ReqDay(data).ok /\ ~DateLess(Today, ReqDay(data))

\* the row an upsert of data writes
ReqRow(data) ==
    <<ReqDate(data), Strip(data.category),
      Num(parse_amount(data.amount)), Strip(data.note)>>

\* the rows of grid that carry the request's date string and its category,
\* letter case aside
KeyRows(grid, data) ==
    {i \in 2..Len(grid) :
        /\ grid[i][1] = ReqDate(data)
        /\ Lower(Strip(grid[i][2])) = Lower(Strip(data.category))}

\* C1: in every worksheet the data rows are in ascending order of date.
C1_SortedByDate ==
    \A t \in DOMAIN sheets :
        \A i, j \in 2..Len(sheets[t]) :
            i < j => /\ RowDate(sheets[t][i]).ok
                     /\ RowDate(sheets[t][j]).ok
                     /\ ~DateLess(RowDate(sheets[t][j]), RowDate(sheets[t][i]))

\* C1 witness: the 5th was inserted above the 10th and the 20th.
C1_Witness ==
    /\ September \in DOMAIN sheets
    /\ DateColumn(sheets[September]) = <<D_0905, D_0910, D_0920>>
    /\ last.result = "Inserted"
    /\ last.data.date = D_0905

\* C2 as claimed: at most one row per calendar date and category (letter
\* case and surrounding blanks aside), however the date was spelled.
C2_OneRowPerDayAndCategory ==
    \A t \in DOMAIN sheets :
        \A i, j \in 2..Len(sheets[t]) :
            i < j => ~ /\ RowDate(sheets[t][i]) = RowDate(sheets[t][j])
                       /\ Lower(Strip(sheets[t][i][2])) = Lower(Strip(sheets[t][j][2]))

\* two request bodies that are the same tuple once normalised
SameNormalized(a, b) ==
    /\ ReqDate(a) = ReqDate(b)
    /\ clean_str(a.category) = clean_str(b.category)
    /\ parse_amount(a.amount) = parse_amount(b.amount)
    /\ clean_str(a.note) = clean_str(b.note)

\* C3: an upsert of a valid entry whose date and category the ledger does
\* not hold returns Added; the same normalised tuple upserted right after an
\* Added is rejected as Duplicate and leaves the spreadsheet as it was.
C3_DuplicateIdempotent ==
    [][ last'.op = "add_expense" =>
          /\ ( /\ ValidNow(last'.data)
               /\ \/ ReqTitle(last'.data) \notin DOMAIN sheets
                  \/ KeyRows(sheets[ReqTitle(last'.data)], last'.data) = {}
               => last'.result \in Added )
          /\ ( /\ last.op = "add_expense"
               /\ last.result \in Added
               /\ SameNormalized(last.data, last'.data)
               => /\ last'.result = "Duplicate"
                  /\ sheets' = sheets ) ]_vars

\* C3 witness: two calls, the second spelled with blanks and the amount as
\* text, rejected as Duplicate; the one row is the one the first call added.
C3_Witness ==
    /\ ncalls = 2
    /\ last.result = "Duplicate"
    /\ last.data.category = <<" ", "F", " ">>
    /\ DOMAIN sheets = {ReqTitle(last.data)}
    /\ DataRows(sheets[ReqTitle(last.data)]) = <<ReqRow(last.data)>>

\* the grid with the Amount and Note of row i overwritten by the request's
Overwritten(grid, i, data) ==
    [grid EXCEPT ![i] = <<@[1], @[2], Num(parse_amount(data.amount)), Strip(data.note)>>]

\* the stored row's amount or note is not the request's
PayloadDiffers(row, data) ==
    \/ parse_amount(Str(RenderAmount(row[3]))) # parse_amount(data.amount)
    \/ Strip(row[4]) # Strip(data.note)

\* C4: when the ledger holds a row of the request's date and category
\* (letter case aside) whose amount or note differs, the upsert returns
\* Updated and changes that row's Amount and Note and nothing else.
C4_UpdateInPlace ==
    [][ ( /\ last'.op = "add_expense"
          /\ ValidNow(last'.data)
          /\ ReqTitle(last'.data) \in DOMAIN sheets
          /\ \E i \in KeyRows(sheets[ReqTitle(last'.data)], last'.data) :
                PayloadDiffers(sheets[ReqTitle(last'.data)][i], last'.data) )
        => /\ last'.result = "Updated"
           /\ \E i \in KeyRows(sheets[ReqTitle(last'.data)], last'.data) :
                sheets' = [sheets EXCEPT ![ReqTitle(last'.data)] =
                              Overwritten(@, i, last'.data)] ]_vars

\* C4 witness: category "f" updated the row stored as "F" to 20, "b", below
\* another row.
C4_Witness ==
    /\ last.result = "Updated"
    /\ last.data.category = <<"f">>
    /\ \E i \in 3..Len(sheets[ReqTitle(last.data)]) :
          sheets[ReqTitle(last.data)][i] = <<ReqDate(last.data), <<"F">>, Num(20), <<"b">>>>

\* C5: an upsert dated after today is rejected as FutureDate and leaves the
\* spreadsheet untouched (no worksheet created, no header, no row); an
\* upsert dated today is not.
C5_FutureDateRejected ==
    [][ (last'.op = "add_expense" /\ ReqDay(last'.data).ok) =>
          /\ DateLess(Today, ReqDay(last'.data))
                => last'.result = "FutureDate" /\ sheets' = sheets
          /\ ReqDay(last'.data) = Today => last'.result # "FutureDate" ]_vars

\* C5 witness: the very first request is dated tomorrow and is rejected, and
\* no worksheet exists.
C5_Witness ==
    /\ last.result = "FutureDate"
    /\ last.data.date = D_0921
    /\ sheets = <<>>

\* C9: an upsert of a valid entry into a month that has no worksheet yet, or
\* a worksheet with no data row, returns Added and leaves the header followed
\* by exactly the one normalised row.
C9_FirstRow ==
    [][ ( /\ last'.op = "add_expense"
          /\ ValidNow(last'.data)
          /\ \/ ReqTitle(last'.data) \notin DOMAIN sheets
             \/ Len(sheets[ReqTitle(last'.data)]) <= 1 )
        => /\ last'.result \in Added
           /\ ReqTitle(last'.data) \in DOMAIN sheets'
           /\ sheets'[ReqTitle(last'.data)] = <<HeaderRow, ReqRow(last'.data)>> ]_vars

\* C9 witness: a summary created August with its header only, then an entry
\* spelled with blanks was added to it.
C9_Witness ==
    /\ last.result = "Appended"
    /\ last.data.date = D_0831
    /\ last.data.category = <<" ", "F", " ">>
    /\ ncalls = 2
    /\ sheets[ReqTitle(last.data)] = <<HeaderRow, <<D_0831, <<"F">>, Num(10), <<"a">>>>>>

\* C7 as claimed: a request whose date or month does not parse is answered
\* with a client error (4xx) and changes no worksheet.
C7_UnparseableIsClientError ==
    [][ last'.result = "ValueError" =>
          /\ last'.code \in 400..499
          /\ sheets' = sheets ]_vars

\* C8: POST /add_expense answers 200 exactly when the upsert added or updated
\* a row (and then the spreadsheet changed), 400 exactly when it rejected a
\* duplicate or a future date (and then nothing was written), and 500 when
\* a backend call raised; there is no other answer.
C8_ResponseMapping ==
    [][ last'.op = "add_expense" =>
          /\ last'.code \in {200, 400, 500}
          /\ last'.code = 200 <=> last'.result \in Added \cup {"Updated"}
          /\ last'.code = 200 => sheets' # sheets
          /\ last'.code = 400 <=> last'.result \in Rejections
          /\ last'.code = 400 => sheets' = sheets
          /\ last'.result = "BackendError" => last'.code = 500 ]_vars

\* C8 witness: the backend raised between the two cell writes of an update;
\* the answer is 500 and the row holds the new amount with the old note.
C8_Witness ==
    /\ last.op = "add_expense"
    /\ last.result = "BackendError"
    /\ last.code = 500
    /\ last.data.amount = Num(20)
    /\ September \in DOMAIN sheets
    /\ \E i \in 2..Len(sheets[September]) :
          sheets[September][i] = <<ReqDate(last.data), <<"F">>, Num(20), <<"a">>>>

\* the number an Amount cell stands for in a summary
ExpectedAmount(a) ==
    IF a.t = "num" THEN a.n
    ELSE IF AllDigits(Strip(a.s)) THEN ToNat(Strip(a.s)) ELSE 0

RECURSIVE SumAmounts(_, _)
SumAmounts(rows, I) ==
    IF I = {} THEN 0
    ELSE LET i == CHOOSE x \in I : TRUE
         IN  ExpectedAmount(rows[i][3]) + SumAmounts(rows, I \ {i})

DupRows ==
    \E t \in DOMAIN sheets :
        \E i, j \in 2..Len(sheets[t]) :
            /\ i < j
            /\ sheets[t][i][1] = sheets[t][j][1]
            /\ Lower(Strip(sheets[t][i][2])) = Lower(Strip(sheets[t][j][2]))

\* C6: a duplicate row, or a cell write that overwrote what its upsert had
\* not read, never arises unless two upserts were in flight together.
C6_RaceNeedsInterleaving == (DupRows \/ lost) => overlap

\* C6 witness: interleaved upserts left both a duplicate row and a lost write.
C6_Witness == DupRows /\ lost /\ overlap

Created == DOMAIN sheets' \ DOMAIN sheets

\* the step is an upsert of a valid entry dated in the month titled t
UpsertTargets(t) ==
    /\ last'.op = "add_expense"
    /\ ValidNow(last'.data)
    /\ ReqTitle(last'.data) = t

\* the step is a summary or daily summary that selects the month titled t
SummarySelects(t) ==
    /\ last'.op \in {"get_summary", "get_daily_summary"}
    /\ month_title_from_param(last'.month).ok
    /\ month_title_from_param(last'.month).title = t

\* C12 as claimed: a worksheet comes into existence only in an upsert whose
\* entry is dated in its month (so every worksheet has been the target of an
\* upsert), and no operation removes a worksheet.
C12_CreatedOnlyByUpsert ==
    [][ /\ \A t \in Created : UpsertTargets(t)
        /\ DOMAIN sheets \subseteq DOMAIN sheets' ]_vars

\* C12 amended: a worksheet comes into existence only in an operation that
\* resolves its month, an upsert of a valid entry dated in it or a summary
\* or daily summary selecting it, and no operation removes a worksheet.
C12_CreatedOnlyByResolving ==
    [][ /\ \A t \in Created : UpsertTargets(t) \/ SummarySelects(t)
        /\ DOMAIN sheets \subseteq DOMAIN sheets' ]_vars

\* C12 witness: a summary of August created its worksheet, an upsert dated
\* today then created September's, and both exist.
C12_Witness ==
    /\ ncalls = 2
    /\ last.op = "add_expense"
    /\ last.result = "Appended"
    /\ last.data.date = None
    /\ DOMAIN sheets = {September, month_title_from_param(M_08).title}
    /\ Len(sheets[month_title_from_param(M_08).title]) = 1

\* every worksheet has the header as its first row
HeaderFirst(sh) ==
    \A t \in DOMAIN sh : Len(sh[t]) >= 1 /\ sh[t][1] = HeaderRow

\* the worksheet titled t exists and its first row is the header
HasHeader(sh, t) == t \in DOMAIN sh /\ Len(sh[t]) >= 1 /\ sh[t][1] = HeaderRow

\* new is old with one row written at or below row 2: the request's row
\* inserted or appended, or the Amount and Note of one data row overwritten
WrittenBelowHeader(old, new, data) ==
    \/ \E i \in 2..(Len(old) + 1) : new = insert_row(old, ReqRow(data), i)
    \/ \E i \in 2..Len(old) : new = Overwritten(old, i, data)

\* C13: after every operation each worksheet has the header Date, Category,
\* Amount, Note as its first row; the worksheet of the month an operation
\* resolved exists with that header; an upsert leaves the worksheet as it
\* was or writes one row at or below row 2, and in a worksheet that existed
\* before, it leaves row 1 and every row it does not update as they were.
C13_HeaderInvariant ==
    [][ /\ HeaderFirst(sheets')
        /\ last'.op = "add_expense" /\ ValidNow(last'.data)
              => HasHeader(sheets', ReqTitle(last'.data))
        /\ SummarySelects(month_title_from_param(last'.month).title)
              => HasHeader(sheets', month_title_from_param(last'.month).title)
        /\ \A t \in DOMAIN sheets :
              /\ Len(sheets'[t]) >= Len(sheets[t])
              /\ last'.op = "add_expense" /\ sheets'[t] # sheets[t]
                    => /\ t = ReqTitle(last'.data)
                       /\ WrittenBelowHeader(sheets[t], sheets'[t], last'.data) ]_vars

\* C13 witness: a summary created August with only its header; in September
\* the 5th was then inserted at row 2, right below the header, above the 10th.
C13_Witness ==
    /\ ncalls = 3
    /\ last.result = "Inserted"
    /\ DOMAIN sheets = {September, month_title_from_param(M_08).title}
    /\ sheets[month_title_from_param(M_08).title] = <<HeaderRow>>
    /\ Len(sheets[September]) = 3
    /\ sheets[September][1] = HeaderRow
    /\ sheets[September][2] = ReqRow(last.data)
    /\ sheets[September][3][1] = D_0910

\* the rows of grid dated strictly later than the request
LaterRows(grid, data) ==
    {i \in 2..Len(grid) :
        RowDate(grid[i]).ok /\ DateLess(ReqDay(data), RowDate(grid[i]))}

\* the least element of a non-empty set of row numbers
FirstOf(I) == CHOOSE i \in I : \A j \in I : i <= j

\* C14: when an upsert into a worksheet that holds rows adds a row and some
\* row is dated strictly later, the new row takes the place of the first
\* such row, every row above it (all those dated earlier or the same day, in
\* the order they had) stays put and every row from there on moves down by
\* one unchanged; when no row is dated strictly later the new row becomes
\* the last row and the others stay put.
C14_InsertionPosition ==
    [][ ( /\ last'.op = "add_expense"
          /\ last'.result \in Added
          /\ ReqTitle(last'.data) \in DOMAIN sheets
          /\ Len(sheets[ReqTitle(last'.data)]) >= 1 )
        => LET old == sheets[ReqTitle(last'.data)]
               new == sheets'[ReqTitle(last'.data)]
           IN  \E later \in {LaterRows(old, last'.data)} :
               \E k \in {IF later = {} THEN Len(old) + 1 ELSE FirstOf(later)} :
                  /\ Len(new) = Len(old) + 1
                  /\ new[k] = ReqRow(last'.data)
                  /\ \A i \in 1..(k - 1) : new[i] = old[i]
                  /\ \A i \in k..Len(old) : new[i + 1] = old[i]
                  /\ \A i \in 2..Len(old) : i < k <=> i \notin later
                  /\ (last'.result = "Inserted") <=> (later # {}) ]_vars

\* C14 witness: with F on the 5th and F on the 10th stored, T on the 5th was
\* inserted below the row of the same day and above the 10th.
C14_Witness ==
    /\ ncalls = 3
    /\ last.result = "Inserted"
    /\ last.data.category = <<"T">>
    /\ DateColumn(sheets[September]) = <<D_0905, D_0905, D_0910>>
    /\ sheets[September][2][2] = <<"F">>
    /\ sheets[September][3] = ReqRow(last.data)

\* the stored row equals the request on all four normalised fields
EqualsOnAllFour(row, data) ==
    /\ Strip(row[1]) = ReqDate(data)
    /\ Lower(Strip(row[2])) = Lower(Strip(data.category))
    /\ ExpectedAmount(row[3]) = parse_amount(data.amount)
    /\ Strip(row[4]) = Strip(data.note)

\* C15: whatever rows the worksheet holds, in whatever order and however
\* many of one date and category, an upsert of a valid entry that some row
\* equals on all four normalised fields is rejected as Duplicate and writes
\* nothing, also when a row above it has the same date and category with
\* another amount or note, or is dated later.
C15_DuplicateFirst ==
    [][ ( /\ last'.op = "add_expense"
          /\ ValidNow(last'.data)
          /\ ReqTitle(last'.data) \in DOMAIN sheets
          /\ \E i \in 2..Len(sheets[ReqTitle(last'.data)]) :
                EqualsOnAllFour(sheets[ReqTitle(last'.data)][i], last'.data) )
        => /\ last'.result = "Duplicate"
           /\ last'.code = 400
           /\ sheets' = sheets ]_vars

\* C15 witness: row 2 is dated later than the candidate, row 3 has its date
\* and category with another amount and note, row 4 equals it; the upsert,
\* spelled in another letter case, is rejected and the rows are as they were.
C15_Witness ==
    /\ ncalls = 1
    /\ last.result = "Duplicate"
    /\ last.data = Body(D_0905, [category |-> <<"f">>, amount |-> Num(10),
                                 note |-> <<"a">>])
    /\ sheets[September] =
          <<HeaderRow, <<D_0910, <<"F">>, Num(20), <<"b">>>>,
            <<D_0905, <<"F">>, Num(20), <<"b">>>>,
            <<D_0905, <<"F">>, Num(10), <<"a">>>>>>

\* two request bodies that differ at most in surrounding blanks of category
\* and note, in the letter case of the category, and in how the amount
\* spells its number
SameEntry(a, b) ==
    /\ ReqDate(a) = ReqDate(b)
    /\ Lower(Strip(a.category)) = Lower(Strip(b.category))
    /\ parse_amount(a.amount) = parse_amount(b.amount)
    /\ Strip(a.note) = Strip(b.note)

\* C16: an upsert right after an Added one, of a body that differs from the
\* first at most in surrounding blanks of category or note, in the letter
\* case of the category, or in an amount that stands for the same number (a
\* text that is no number standing for 0), is rejected as Duplicate, writes
\* nothing, and the stored row is the first call's, category spelling included.
C16_NormalizedMatch ==
    [][ ( /\ last.op = "add_expense"
          /\ last.result \in Added
          /\ last'.op = "add_expense"
          /\ SameEntry(last.data, last'.data) )
        => /\ last'.result = "Duplicate"
           /\ sheets' = sheets
           /\ KeyRows(sheets'[ReqTitle(last.data)], last'.data) # {}
           /\ \A i \in KeyRows(sheets'[ReqTitle(last.data)], last'.data) :
                 sheets'[ReqTitle(last.data)][i] = ReqRow(last.data) ]_vars

\* C16 witness: an entry of category F whose amount stands for 0 was added;
\* "f" with the amount "y" is then rejected; the one row reads F, 0, a.
C16_Witness ==
    /\ ncalls = 2
    /\ last.result = "Duplicate"
    /\ last.data.category = <<"f">>
    /\ last.data.amount = Str(<<"y">>)
    /\ sheets[September] = <<HeaderRow, <<D_0905, <<"F">>, Num(0), <<"a">>>>>>

\* "<FullMonthName> <Year>" of a date, in English
EnglishMonths ==
    <<"January", "February", "March", "April", "May", "June", "July",
      "August", "September", "October", "November", "December">>

TitleFor(dt) == <<EnglishMonths[dt.m], NatStr(dt.y)>>

\* every data row of every worksheet is dated in the worksheet's month
RowsInTheirMonth(sh) ==
    \A t \in DOMAIN sh :
        \A i \in 2..Len(sh[t]) :
            RowDate(sh[t][i]).ok /\ TitleFor(RowDate(sh[t][i])) = t

\* C17: an upsert creates or changes no worksheet but the one titled for
\* the month of its own date, and what it does there depends on no other
\* worksheet; so every data row of the worksheet titled for a month is
\* dated in that month.
C17_MonthPartition ==
    [][ /\ RowsInTheirMonth(sheets')
        /\ last'.op = "add_expense" =>
              IF ~ValidNow(last'.data) THEN sheets' = sheets
              ELSE \E own \in {TitleFor(ReqDay(last'.data))} :
                     /\ \A t \in DOMAIN sheets' \ {own} :
                           t \in DOMAIN sheets /\ sheets'[t] = sheets[t]
                     /\ own \in DOMAIN sheets'
                     /\ sheets'[own] =
                           add_expense(IF own \in DOMAIN sheets
                                       THEN (own :> sheets[own]) ELSE <<>>,
                                       last'.data, 0).sh[own] ]_vars

\* C17 witness: with the 5th and the 10th stored in September, 31 August was
\* added to August, which holds that one row, and September its two.
C17_Witness ==
    /\ ncalls = 3
    /\ last.result = "Appended"
    /\ last.data.date = D_0831
    /\ DOMAIN sheets = {TitleFor(Today), TitleFor(ReqDay(last.data))}
    /\ sheets[TitleFor(ReqDay(last.data))] = <<HeaderRow, ReqRow(last.data)>>
    /\ DateColumn(sheets[TitleFor(Today)]) = <<D_0905, D_0910>>

\* the number of data rows of the worksheet titled t, 0 when there is none
NData(sh, t) ==
    IF t \in DOMAIN sh /\ Len(sh[t]) >= 1 THEN Len(sh[t]) - 1 ELSE 0

\* every row of old is in new, in the same order, with its Date and
\* Category; new holds at most one row more
KeepsRows(old, new) ==
    \/ /\ Len(new) = Len(old)
       /\ \A i \in 2..Len(old) : new[i][1] = old[i][1] /\ new[i][2] = old[i][2]
    \/ /\ Len(new) = Len(old) + 1
       /\ \E k \in 2..Len(new) :
             \A i \in 2..Len(old) : new[IF i < k THEN i ELSE i + 1] = old[i]

\* C18: served one at a time, no operation removes a data row or changes
\* the Date or Category of one; an upsert that returns Added leaves exactly
\* one data row more (in its month's worksheet, none more elsewhere), one
\* that returns Updated or a rejection leaves as many as there were; a
\* summary or daily summary changes no data row.
C18_RowAccounting ==
    [][ /\ \A t \in DOMAIN sheets :
              t \in DOMAIN sheets' /\ KeepsRows(sheets[t], sheets'[t])
        /\ last'.result \in Added =>
              \A t \in DOMAIN sheets' :
                 NData(sheets', t) =
                    NData(sheets, t) + (IF t = ReqTitle(last'.data) THEN 1 ELSE 0)
        /\ last'.result \in {"Updated"} \cup Rejections =>
              \A t \in DOMAIN sheets' : NData(sheets', t) = NData(sheets, t)
        /\ last'.op \in {"get_summary", "get_daily_summary"} =>
              \A t \in DOMAIN sheets' :
                 /\ NData(sheets', t) = NData(sheets, t)
                 /\ t \in DOMAIN sheets =>
                       DataRows(sheets'[t]) = DataRows(sheets[t]) ]_vars

\* C18 witness: with the 5th and the 10th stored, an upsert for the 10th
\* returned Updated; there are still two data rows, with their dates and
\* categories, and the 10th carries the new amount and note.
C18_Witness ==
    /\ ncalls = 3
    /\ last.result = "Updated"
    /\ last.data.amount = Num(20)
    /\ DOMAIN sheets = {September}
    /\ DateColumn(sheets[September]) = <<D_0905, D_0910>>
    /\ sheets[September][3] = <<D_0910, <<"F">>, Num(20), <<"b">>>>

\* worker w makes the second cell write of an update and returns Updated
ReturnsUpdated(w) == pc[w] = "update_note" /\ pc'[w] = "idle"

\* the row worker w has written to, after its second cell write
WrittenRow(w) == sheets'[ReqTitle(wreq[w])][wplan[w].update_row_index]

\* the row carries the date and, letter case aside, the category of w's entry
MatchesCandidate(row, w) ==
    /\ row[1] = WCand(w).date_str
    /\ Lower(Strip(row[2])) = Lower(WCand(w).category)

\* the Amount and Note an upsert call can give
CallPairs == {<<Num(parse_amount(d.amount)), Strip(d.note)>> : d \in RaceInputs}

\* since w read the rows, nothing but w's own Amount write has changed them
Undisturbed(w) ==
    get_all_values(sheets[ReqTitle(wreq[w])]) =
        [wread[w] EXCEPT ![wplan[w].update_row_index][3] = NatStr(WCand(w).amount)]

\* C19 as claimed: whenever an upsert returns Updated, also when another
\* upsert wrote to the worksheet between its read and its two cell writes,
\* the row it has written to carries its date and category, and that row's
\* Amount and Note are the pair of one single call.
C19_UpdateHitsMatchingRow ==
    [][ \A w \in Workers :
          ReturnsUpdated(w) =>
             /\ MatchesCandidate(WrittenRow(w), w)
             /\ <<WrittenRow(w)[3], WrittenRow(w)[4]>> \in CallPairs ]_vars

\* C19 amended: whenever an upsert returns Updated and no other upsert has
\* written to the worksheet between its read and its second cell write, the
\* row it has written to carries its date and category, that row's Amount
\* and Note are the pair of this call, and every other cell is as it was read.
C19_UpdateUndisturbed ==
    [][ \A w \in Workers :
          ReturnsUpdated(w) /\ Undisturbed(w) =>
             /\ MatchesCandidate(WrittenRow(w), w)
             /\ <<WrittenRow(w)[3], WrittenRow(w)[4]>> =
                   <<Num(WCand(w).amount), WCand(w).note>>
             /\ get_all_values(sheets'[ReqTitle(wreq[w])]) =
                   [wread[w] EXCEPT ![wplan[w].update_row_index] =
                       <<@[1], @[2], NatStr(WCand(w).amount), WCand(w).note>>] ]_vars

\* C19 witness: while the other worker's upsert was in flight, having
\* written nothing, an upsert returned Updated and the row of the 10th
\* carries its pair 20, "b".
C19_Witness ==
    \E w \in Workers :
        /\ wres[w] = "Updated"
        /\ pc[w] = "idle"
        /\ \E v \in Workers \ {w} : pc[v] \in {"read", "update_amount", "insert"}
        /\ ~lost
        /\ sheets[September] = <<HeaderRow, <<D_0910, <<"F">>, Num(20), <<"b">>>>>>

====
